---- MODULE Spec2Model ----
(***************************************************************************)
(* A model of the stock_data_access facade: the symbol resolver and its    *)
(* cache, the batched price fetch, the latest-close lookup, the score      *)
(* ranking, the financial document fetch, the trading calendar and the     *)
(* normalised index series.  Every facade is a set of read operations over *)
(* collections of a document store that somebody else writes.              *)
(*                                                                         *)
(* Strings the code orders or splits are modelled as sequences: a date     *)
(* string is the sequence of its fixed-width fields (<<day>> for YYYYMMDD, *)
(* <<day, hhmm>> for YYYYMMDDHHMM), so that the byte-wise comparison of    *)
(* the store is the lexicographic order LexLess on these sequences; a      *)
(* symbol the code splits is the sequence of its characters.               *)
(***************************************************************************)
EXTENDS Integers, Sequences, FiniteSets, TLC

VARIABLES
    info,           \* stock_info: the set of symbol values of its documents
    sym_ts_cache,   \* StockPriceDataAccess._sym_ts_cache
    prices,         \* volume_price: its rows, in the store's natural order
    scores,         \* stock_scores: its records, in natural order
    findocs,        \* a financial collection: the documents a query matches
    index_prices,   \* index_prices: its rows, in natural order
    ts_loaded,      \* calendar.ts is not None (the provider module imported)
    TUSHARE_TOKEN,  \* calendar.TUSHARE_TOKEN is set
    call            \* the facade call that returned last, with what it returned

vars == <<info, sym_ts_cache, prices, scores, findocs, index_prices,
          ts_loaded, TUSHARE_TOKEN, call>>

----------------------------------------------------------------------------
(* Values and helpers shared by the facades.                               *)

\* Python's None, where the code returns or stores it in place of a string.
NoneVal == "<None>"

\* No facade call has returned yet, or the store was written since.
NoCall == [op |-> "none"]

\* Python truthiness of an Optional[str]: None and "" are falsy.
Truthy(v) == v # NoneVal /\ v # ""

Range(s) == {s[i] : i \in 1..Len(s)}

Min(a, b) == IF a <= b THEN a ELSE b

\* All sequences over S of length 0..n.
SeqsUpTo(S, n) == UNION {[1..k -> S] : k \in 0..n}

\* Byte-wise string comparison, as the store and Python compare strings:
\* the first differing position decides, and a proper prefix is smaller.
LexLess(a, b) ==
    \E k \in 1..(Len(a) + 1) :
        /\ k <= Len(b)
        /\ \A i \in 1..(k - 1) : a[i] = b[i]
        /\ (k = Len(a) + 1 \/ a[k] < b[k])

LexLeq(a, b) == a = b \/ LexLess(a, b)

\* A stable sort of s by the strict order Less: elements that Less does not
\* order keep the order they have in s (Python's sorted, also with
\* reverse=True, and the store's sort over its natural order).
SortedBy(s, Less(_, _)) ==
    LET n == Len(s)
        rank(i) == Cardinality({j \in 1..n :
                        \/ Less(s[j], s[i])
                        \/ (~Less(s[i], s[j]) /\ j < i)}) + 1
    IN  [p \in 1..n |-> s[CHOOSE i \in 1..n : rank(i) = p]]

\* dict[k] = v
Put(f, k, v) == [x \in DOMAIN f \cup {k} |-> IF x = k THEN v ELSE f[x]]

\* dict.get(k), None when the key is missing
Get(f, k) == IF k \in DOMAIN f THEN f[k] ELSE NoneVal

EmptyMap == [x \in {} |-> NoneVal]

----------------------------------------------------------------------------
(* Bounds of the model.                                                    *)

NumSymbols == 2     \* named symbols the resolver is asked about (plus "")
MaxBatch == 2       \* longest symbol list handed to resolve_many

SymbolName == <<"600000.SH", "000001.SZ", "300750.SZ", "688981.SH">>

InfoSymbols == {""} \cup {SymbolName[i] : i \in 1..NumSymbols}

----------------------------------------------------------------------------
(* StockPriceDataAccess: the symbol resolver (loader.py).                  *)

\* info_coll.find_one({"symbol": symbol}, {"symbol": 1}) followed by
\* doc.get("symbol") if doc else None
find_one_symbol(coll, symbol) == IF symbol \in coll THEN symbol ELSE NoneVal

\* info_coll.find({"symbol": {"$in": missing}}, {"symbol": 1}): the symbol of
\* every matching document
find_in_symbols(coll, missing) == {d \in coll : d \in Range(missing)}

\* A mutant of resolve_ts_code: the result of a query is never cached.
resolve_ts_code_uncached(cache, coll, symbol) ==
    IF symbol \in DOMAIN cache
    THEN [cache |-> cache, result |-> cache[symbol], issued |-> <<>>]
    ELSE [cache |-> cache, result |-> find_one_symbol(coll, symbol),
          issued |-> <<[op |-> "find_one", arg |-> <<symbol>>]>>]

\* A mutant of resolve_ts_code: whatever the query returned is cached, also
\* None for a symbol that was not found.
resolve_ts_code_caching_misses(cache, coll, symbol) ==
    IF symbol \in DOMAIN cache
    THEN [cache |-> cache, result |-> cache[symbol], issued |-> <<>>]
    ELSE LET resolved_symbol == find_one_symbol(coll, symbol)
         IN  [cache  |-> Put(cache, symbol, resolved_symbol),
              result |-> resolved_symbol,
              issued |-> <<[op |-> "find_one", arg |-> <<symbol>>]>>]

\* resolve_ts_code: the cache after the call, the value returned and the
\* queries issued to the info collection.
resolve_ts_code(cache, coll, symbol) ==
    IF symbol \in DOMAIN cache
    THEN [cache |-> cache, result |-> cache[symbol], issued |-> <<>>]
    ELSE LET resolved_symbol == find_one_symbol(coll, symbol)
         IN  [cache  |-> IF Truthy(resolved_symbol)
                         THEN Put(cache, symbol, resolved_symbol)
                         ELSE cache,
              result |-> resolved_symbol,
              issued |-> <<[op |-> "find_one", arg |-> <<symbol>>]>>]

\* A mutant of resolve_many: symbols that were not found are left out of
\* the mapping.
resolve_many_omitting(cache, coll, symbols) ==
    LET missing == SelectSeq(symbols, LAMBDA s : s \notin DOMAIN cache)
        docs == IF missing # <<>> THEN find_in_symbols(coll, missing) ELSE {}
        found == {d \in docs : Truthy(d)}
        cache2 == [x \in DOMAIN cache \cup found |->
                      IF x \in found THEN x ELSE cache[x]]
    IN  [cache  |-> cache2,
         result |-> [s \in Range(symbols) \cap DOMAIN cache2 |-> cache2[s]],
         issued |-> IF missing # <<>>
                    THEN <<[op |-> "find", arg |-> missing]>> ELSE <<>>]

\* resolve_many: one $in query for the symbols the cache lacks, the cache
\* filled from the documents found, and the mapping of every input symbol.
resolve_many(cache, coll, symbols) ==
    LET missing == SelectSeq(symbols, LAMBDA s : s \notin DOMAIN cache)
        docs == IF missing # <<>> THEN find_in_symbols(coll, missing) ELSE {}
        found == {d \in docs : Truthy(d)}
        cache2 == [x \in DOMAIN cache \cup found |->
                      IF x \in found THEN x ELSE cache[x]]
    IN  [cache  |-> cache2,
         result |-> [s \in Range(symbols) |-> Get(cache2, s)],
         issued |-> IF missing # <<>>
                    THEN <<[op |-> "find", arg |-> missing]>> ELSE <<>>]

\* What a later resolver call remembers of the call before it.
Brief(c) ==
    IF c.op = "resolve_ts_code"
    THEN [op |-> c.op, args |-> c.args, result |-> c.result]
    ELSE [op |-> c.op]

\* The store was written after the call returned.
Stale(c) == IF c.op = "none" THEN c ELSE [c EXCEPT !.stale = TRUE]

ResolveTsCode(symbol) ==
    LET r == resolve_ts_code(sym_ts_cache, info, symbol)
    IN  /\ sym_ts_cache' = r.cache
        /\ call' = [op |-> "resolve_ts_code", args |-> <<symbol>>,
                    result |-> r.result, issued |-> r.issued,
                    pre_cache |-> sym_ts_cache, prev |-> Brief(call),
                    stale |-> FALSE]
        /\ UNCHANGED <<info, prices, scores, findocs, index_prices,
                       ts_loaded, TUSHARE_TOKEN>>

ResolveMany(symbols) ==
    LET r == resolve_many(sym_ts_cache, info, symbols)
    IN  /\ sym_ts_cache' = r.cache
        /\ call' = [op |-> "resolve_many", args |-> symbols,
                    result |-> r.result, issued |-> r.issued,
                    pre_cache |-> sym_ts_cache, stale |-> FALSE]
        /\ UNCHANGED <<info, prices, scores, findocs, index_prices,
                       ts_loaded, TUSHARE_TOKEN>>

\* The store's owner adds a stock_info document.
InfoInsert(symbol) ==
    /\ symbol \notin info
    /\ info' = info \cup {symbol}
    /\ call' = Stale(call)
    /\ UNCHANGED <<sym_ts_cache, prices, scores, findocs, index_prices,
                   ts_loaded, TUSHARE_TOKEN>>

\* The store's owner removes a stock_info document.
InfoDelete(symbol) ==
    /\ symbol \in info
    /\ info' = info \ {symbol}
    /\ call' = Stale(call)
    /\ UNCHANGED <<sym_ts_cache, prices, scores, findocs, index_prices,
                   ts_loaded, TUSHARE_TOKEN>>

\* The caller takes the result of a call to a stateless facade; these
\* facades are called one call at a time, and their stores are written
\* between calls.
Return ==
    /\ call # NoCall
    /\ call' = NoCall
    /\ UNCHANGED <<info, sym_ts_cache, prices, scores, findocs, index_prices,
                   ts_loaded, TUSHARE_TOKEN>>

\* StockPriceDataAccess.__init__ and the other constructors: an empty cache;
\* the collections are empty until their owner writes them. The process
\* starts with or without the provider module and with or without a token.
Init ==
    /\ info = {}
    /\ sym_ts_cache = EmptyMap
    /\ prices = <<>>
    /\ scores = <<>>
    /\ findocs = <<>>
    /\ index_prices = <<>>
    /\ ts_loaded \in BOOLEAN
    /\ TUSHARE_TOKEN \in BOOLEAN
    /\ call = NoCall

\* Only the calendar reads the provider's configuration: the specifications
\* of the other facades start without it.
InitFacade == Init /\ ~ts_loaded /\ ~TUSHARE_TOKEN

NextResolver ==
    \/ \E s \in InfoSymbols : ResolveTsCode(s)
    \/ \E l \in SeqsUpTo(InfoSymbols, MaxBatch) : ResolveMany(l)
    \/ \E s \in InfoSymbols : InfoInsert(s)
    \/ \E s \in InfoSymbols : InfoDelete(s)

SpecResolver == InitFacade /\ [][NextResolver]_vars

----------------------------------------------------------------------------
(* Claims about the resolver.                                              *)

\* The last call was resolve_ts_code, right after a resolve_ts_code call for
\* the same symbol.
SecondResolveCall ==
    /\ call.op = "resolve_ts_code"
    /\ call.prev.op = "resolve_ts_code"
    /\ call.prev.args = call.args

\* C2 as stated: for every symbol, a second resolve_ts_code call for it
\* returns what the first returned and issues no query.
C2_SecondCallNeverQueries ==
    SecondResolveCall =>
        /\ call.issued = <<>>
        /\ call.result = call.prev.result

\* C2, amended: when the first resolve_ts_code call for a symbol found it
\* (returned a non-empty code), the second call for the same symbol returns
\* the same value from the cache and issues no query to the info collection,
\* whatever happened to the store in between.
C2_SecondCallOfFoundSymbolIsCached ==
    (SecondResolveCall /\ Truthy(call.prev.result)) =>
        /\ call.issued = <<>>
        /\ call.result = call.prev.result
        /\ call.result = call.pre_cache[call.args[1]]

\* A second call for a symbol the first call found, after the document was
\* removed from the store.
C2_Witness ==
    /\ SecondResolveCall
    /\ Truthy(call.prev.result)
    /\ call.args[1] \notin info
    /\ call.issued = <<>>

\* The symbols resolve_many was asked about that the cache lacked.
Uncached(c) == SelectSeq(c.args, LAMBDA s : s \notin DOMAIN c.pre_cache)

\* What C9 says of the queries resolve_many issues and of the cache.
C9_QueriesAndCache ==
    /\ Len(call.issued) <= 1
    /\ (Uncached(call) = <<>>) <=> (call.issued = <<>>)
    /\ \A i \in 1..Len(call.issued) :
          /\ call.issued[i].op = "find"
          /\ call.issued[i].arg = Uncached(call)

\* C9 as stated: the mapping has every input symbol as a key, a symbol that
\* is in the info collection or in the cache maps to its code and any other
\* to None; at most one query, for the uncached symbols; the symbols found
\* are added to the cache.
C9_ResolveManyFullMapping ==
    (call.op = "resolve_many" /\ ~call.stale) =>
        /\ DOMAIN call.result = Range(call.args)
        /\ \A s \in Range(call.args) :
              call.result[s] = IF s \in info \/ s \in DOMAIN call.pre_cache
                               THEN s ELSE NoneVal
        /\ C9_QueriesAndCache
        /\ \A s \in Range(call.args) : s \in info => s \in DOMAIN sym_ts_cache

\* C9, amended: as stated, for the non-empty input symbols; the empty
\* symbol maps to None and is not cached even when the info collection
\* holds a document for it.
C9_ResolveManyNonEmptySymbols ==
    (call.op = "resolve_many" /\ ~call.stale) =>
        /\ DOMAIN call.result = Range(call.args)
        /\ \A s \in Range(call.args) :
              call.result[s] = IF s # "" /\ (s \in info \/ s \in DOMAIN call.pre_cache)
                               THEN s ELSE NoneVal
        /\ C9_QueriesAndCache
        /\ \A s \in Range(call.args) :
              (s # "" /\ s \in info) => s \in DOMAIN sym_ts_cache
        /\ "" \notin DOMAIN sym_ts_cache

\* resolve_many found one symbol in the store, took another from the cache
\* and did not find a third.
C9_Witness ==
    /\ call.op = "resolve_many" /\ ~call.stale
    /\ \E s \in Range(call.args) : s \in info /\ s \notin DOMAIN call.pre_cache /\ s # ""
    /\ \E s \in Range(call.args) : s \in DOMAIN call.pre_cache
    /\ call.issued # <<>>

\* The cache holds only non-empty symbols mapped to themselves, entries are
\* never removed or changed by a call, and a call adds only symbols that its
\* query found in the info collection.
C10_CacheInvariant ==
    /\ \A k \in DOMAIN sym_ts_cache : sym_ts_cache[k] = k /\ k # ""
    /\ call.op \in {"resolve_ts_code", "resolve_many"} =>
          /\ \A k \in DOMAIN call.pre_cache :
                k \in DOMAIN sym_ts_cache /\ sym_ts_cache[k] = call.pre_cache[k]
          /\ \A k \in DOMAIN sym_ts_cache \ DOMAIN call.pre_cache :
                /\ \E i \in 1..Len(call.issued) : k \in Range(call.issued[i].arg)
                /\ ~call.stale => k \in info

\* C10 as stated: the cache invariant, and in every state the two resolvers
\* return the same value for every symbol.
C10_CacheAndAgreement ==
    /\ C10_CacheInvariant
    /\ \A s \in InfoSymbols :
          resolve_ts_code(sym_ts_cache, info, s).result
              = resolve_many(sym_ts_cache, info, <<s>>).result[s]

\* C10, amended: the cache invariant, and in every state the two resolvers
\* return the same value for every non-empty symbol.
C10_CacheAndAgreementNonEmpty ==
    /\ C10_CacheInvariant
    /\ \A s \in InfoSymbols \ {""} :
          resolve_ts_code(sym_ts_cache, info, s).result
              = resolve_many(sym_ts_cache, info, <<s>>).result[s]

\* A cached symbol whose document is gone from the store, next to a symbol
\* that is in the store and not cached.
C10_Witness ==
    /\ \E k \in DOMAIN sym_ts_cache : k \notin info
    /\ \E s \in info : s # "" /\ s \notin DOMAIN sym_ts_cache
    /\ call.op = "resolve_many"

----------------------------------------------------------------------------
(* ScoreDataAccess (score.py).                                             *)

MaxScoreDocs == 2   \* records in stock_scores
MaxDay == 3         \* score dates are the days 1..MaxDay
MaxScore == 2       \* score values 1..MaxScore
MaxTopN == 2        \* top_n and periods range over 0..MaxTopN

\* ScoreDataAccess._composite_styles
composite_styles ==
    {"balanced", "aggressive", "conservative", "defensive", "value_oriented",
     "trading_oriented", "growth_oriented", "cycle_oriented"}

\* The dimensions asked for, one composite style and one scalar dimension,
\* and the score fields a record may carry.
Dimensions == {"balanced", "value"}
ScoreFields == {"composite_score.balanced", "value_score"}

\* The score_date strings of the store, and the dates asked for: also a day
\* before and a day after every stored one.
ScoreDates == {<<d>> : d \in 1..MaxDay}
QueryDates == {<<d>> : d \in 0..(MaxDay + 1)}

\* The score fields of one record: none, or one field with its value.
ScoreFieldMaps ==
    {EmptyMap} \cup {f :> v : f \in ScoreFields, v \in 1..MaxScore}

\* cursor.limit(n) of the store driver: 0 means no limit, and a negative n
\* limits to -n documents.
Limit(docs, n) ==
    LET m == IF n < 0 THEN 0 - n ELSE n
    IN  IF n = 0 \/ m >= Len(docs) THEN docs ELSE SubSeq(docs, 1, m)

\* cursor.sort("score_date", -1)
ByScoreDateDesc(docs) ==
    SortedBy(docs, LAMBDA a, b : LexLess(b.score_date, a.score_date))

\* A mutant of _resolve_nearest_score_date: without an exact match it goes
\* straight to the latest date of the collection.
resolve_nearest_latest_only(coll, score_date) ==
    IF \E i \in 1..Len(coll) : coll[i].score_date = score_date
    THEN score_date
    ELSE LET latest_list == Limit(ByScoreDateDesc(coll), 1)
         IN  IF latest_list # <<>> THEN latest_list[1].score_date
             ELSE score_date

\* _resolve_nearest_score_date
resolve_nearest_score_date(coll, score_date) ==
    IF \E i \in 1..Len(coll) : coll[i].score_date = score_date
    THEN score_date
    ELSE LET prev_list == Limit(ByScoreDateDesc(SelectSeq(coll,
                 LAMBDA d : LexLeq(d.score_date, score_date))), 1)
             latest_list == Limit(ByScoreDateDesc(coll), 1)
         IN  IF prev_list # <<>> THEN prev_list[1].score_date
             ELSE IF latest_list # <<>> THEN latest_list[1].score_date
             ELSE score_date

\* The field select_top_symbols filters and sorts by.
sort_field(dimension) ==
    IF dimension \in composite_styles
    THEN "composite_score." \o dimension
    ELSE dimension \o "_score"

\* select_top_symbols: the date used and the symbols returned.
select_top_symbols(coll, score_date, dimension, top_n, auto_resolve_date) ==
    LET used == IF auto_resolve_date
                THEN resolve_nearest_score_date(coll, score_date)
                ELSE score_date
        f == sort_field(dimension)
        matching == SelectSeq(coll,
                        LAMBDA d : d.score_date = used /\ f \in DOMAIN d.fields)
        cursor == Limit(SortedBy(matching,
                        LAMBDA a, b : a.fields[f] > b.fields[f]), top_n)
    IN  [used_date |-> used,
         result |-> [i \in 1..Len(cursor) |-> cursor[i].symbol]]

\* The store's owner adds a score record; the records carry distinct symbols.
ScoreInsert(date, fields) ==
    /\ call = NoCall
    /\ Len(scores) < MaxScoreDocs
    /\ scores' = Append(scores, [symbol |-> SymbolName[Len(scores) + 1],
                                 score_date |-> date, fields |-> fields])
    /\ UNCHANGED <<info, sym_ts_cache, prices, findocs, index_prices,
                   ts_loaded, TUSHARE_TOKEN, call>>

ResolveNearestScoreDate(date) ==
    /\ call = NoCall
    /\ call' = [op |-> "_resolve_nearest_score_date", score_date |-> date,
                result |-> resolve_nearest_score_date(scores, date)]
    /\ UNCHANGED <<info, sym_ts_cache, prices, scores, findocs, index_prices,
                   ts_loaded, TUSHARE_TOKEN>>

SelectTopSymbols(date, dimension, top_n, auto) ==
    LET r == select_top_symbols(scores, date, dimension, top_n, auto)
    IN  /\ call = NoCall
        /\ call' = [op |-> "select_top_symbols", score_date |-> date,
                    dimension |-> dimension, top_n |-> top_n,
                    used_date |-> r.used_date, result |-> r.result]
        /\ UNCHANGED <<info, sym_ts_cache, prices, scores, findocs,
                       index_prices, ts_loaded, TUSHARE_TOKEN>>

NextScoreDate ==
    \/ Return
    \/ \E d \in ScoreDates, f \in ScoreFieldMaps : ScoreInsert(d, f)
    \/ \E d \in QueryDates : ResolveNearestScoreDate(d)

SpecScoreDate == InitFacade /\ [][NextScoreDate]_vars

NextScore ==
    \/ Return
    \/ \E d \in ScoreDates, f \in ScoreFieldMaps : ScoreInsert(d, f)
    \/ \E d \in QueryDates, dim \in Dimensions, n \in 0..MaxTopN, a \in BOOLEAN :
          SelectTopSymbols(d, dim, n, a)

SpecScore == InitFacade /\ [][NextScore]_vars

----------------------------------------------------------------------------
(* Claims about ScoreDataAccess.                                           *)

StoredScoreDates == {scores[i].score_date : i \in 1..Len(scores)}

\* C3: _resolve_nearest_score_date returns the requested date when a record
\* has it; else the largest stored score_date that is <= the requested one;
\* else the largest stored score_date; else, the collection being empty, the
\* requested date. The result is the requested date or a stored score_date.
C3_NearestScoreDate ==
    call.op = "_resolve_nearest_score_date" =>
        LET q == call.score_date
            r == call.result
            before == {d \in StoredScoreDates : LexLeq(d, q)}
            IsMax(d, S) == d \in S /\ \A e \in S : LexLeq(e, d)
        IN  /\ q \in StoredScoreDates => r = q
            /\ (q \notin StoredScoreDates /\ before # {}) => IsMax(r, before)
            /\ (before = {} /\ StoredScoreDates # {}) => IsMax(r, StoredScoreDates)
            /\ StoredScoreDates = {} => r = q
            /\ r = q \/ r \in StoredScoreDates

\* The request falls between two stored dates and resolves to the earlier.
C3_Witness ==
    /\ call.op = "_resolve_nearest_score_date"
    /\ LexLess(call.result, call.score_date)
    /\ \E d \in StoredScoreDates : LexLess(call.score_date, d)

\* The records select_top_symbols may return: those of the date used that
\* carry the sort field of the dimension.
Eligible(c) ==
    LET f == IF c.dimension \in composite_styles
             THEN "composite_score." \o c.dimension
             ELSE c.dimension \o "_score"
    IN  {i \in 1..Len(scores) :
            scores[i].score_date = c.used_date /\ f \in DOMAIN scores[i].fields}

\* The score of record i in the field of the dimension asked for.
ScoreOf(c, i) ==
    scores[i].fields[IF c.dimension \in composite_styles
                     THEN "composite_score." \o c.dimension
                     ELSE c.dimension \o "_score"]

\* What C4 says of the symbols returned: min(top_n, number of eligible
\* records) of them, each of an eligible record, in non-increasing order of
\* the sort field, and no eligible record left out has a higher score than
\* one returned.
TopOfEligible(c) ==
    LET picked == {i \in Eligible(c) :
                      \E k \in 1..Len(c.result) : c.result[k] = scores[i].symbol}
        idx(k) == CHOOSE i \in 1..Len(scores) : scores[i].symbol = c.result[k]
    IN  /\ Len(c.result) = Min(c.top_n, Cardinality(Eligible(c)))
        /\ Cardinality(picked) = Len(c.result)
        /\ \A k \in 1..Len(c.result) :
              \E i \in Eligible(c) : scores[i].symbol = c.result[k]
        /\ \A k \in 1..(Len(c.result) - 1) :
              ScoreOf(c, idx(k)) >= ScoreOf(c, idx(k + 1))
        /\ \A i \in picked, j \in Eligible(c) \ picked :
              ScoreOf(c, i) >= ScoreOf(c, j)

\* C4 as stated: for every top_n, select_top_symbols returns exactly
\* min(top_n, number of eligible records) symbols, the highest-scored
\* eligible ones in non-increasing order.
C4_TopSymbols ==
    call.op = "select_top_symbols" => TopOfEligible(call)

\* What the code does keep of C4: the same for top_n >= 1 (with top_n = 0
\* the store applies no limit and every eligible symbol is returned).
C4_TopSymbolsPositive ==
    (call.op = "select_top_symbols" /\ call.top_n >= 1) => TopOfEligible(call)

----------------------------------------------------------------------------
(* StockPriceDataAccess: price retrieval (loader.py).                      *)

MaxRows == 2        \* rows in a price collection
MaxTradeDay == 2    \* trade dates are of the days 1..MaxTradeDay
MaxTime == 1        \* intraday times 0..MaxTime (0 is midnight, "0000")
MaxClose == 2       \* close values 1..MaxClose (and 0 for an index)

\* The symbols of the price rows and of the requests: the empty string, a
\* symbol with an exchange suffix and the same symbol without it.
PriceSymbols == {<<>>, <<"6">>, <<"6", ".", "S">>}

\* Trade dates: daily YYYYMMDD and intraday YYYYMMDDHHMM strings.
DailyDates == {<<d>> : d \in 1..MaxTradeDay}
TradeDates == DailyDates \cup {<<d, t>> : d \in 1..MaxTradeDay, t \in 0..MaxTime}

\* The code of a character, for the store's ordering of symbols.
CharCode(c) == CASE c = "." -> 46 [] c = "6" -> 54 [] c = "S" -> 83 [] OTHER -> 0

SymbolLess(a, b) ==
    LexLess([i \in 1..Len(a) |-> CharCode(a[i])],
            [i \in 1..Len(b) |-> CharCode(b[i])])

\* {"$gte": start_date, "$lte": end_date} on a date string
InRange(d, start_date, end_date) == LexLeq(start_date, d) /\ LexLeq(d, end_date)

\* pd.to_datetime(..., format="mixed") of one date string: the timestamp
\* <<day, time>>, midnight for a daily string.
to_datetime_mixed(s) == IF Len(s) = 1 THEN <<s[1], 0>> ELSE s

\* cursor.sort([("symbol", 1), ("trade_date", 1)])
BySymbolAndDate(docs) ==
    SortedBy(docs, LAMBDA a, b :
        \/ SymbolLess(a.symbol, b.symbol)
        \/ (a.symbol = b.symbol /\ LexLess(a.trade_date, b.trade_date)))

\* fetch_batch: the mapping symbol -> table; a table is the sequence of its
\* rows, each the timestamp of the index and the columns of the row (close
\* stands for open, high, low, close, volume and pct_chg, which are carried
\* alike). Rows of equal timestamp keep the order the store gave them.
fetch_batch(coll, symbols, start_date, end_date) ==
    IF symbols = <<>> THEN <<>>
    ELSE
      LET docs == BySymbolAndDate(SelectSeq(coll, LAMBDA d :
                      /\ d.symbol \in Range(symbols)
                      /\ InRange(d.trade_date, start_date, end_date)))
          grouped == {docs[i].symbol : i \in {j \in 1..Len(docs) : docs[j].symbol # <<>>}}
          table(sym) ==
              LET gdocs == SelectSeq(docs, LAMBDA d : d.symbol = sym)
                  df == [i \in 1..Len(gdocs) |->
                            [index |-> to_datetime_mixed(gdocs[i].trade_date),
                             close |-> gdocs[i].close]]
              IN  SortedBy(df, LAMBDA a, b : LexLess(a.index, b.index))
      IN  [sym \in grouped |-> table(sym)]

\* for d in docs: if sym: result[sym] = d.get("close")
CloseBySymbol(result, docs) ==
    LET syms == {docs[i].symbol : i \in {j \in 1..Len(docs) : docs[j].symbol # <<>>}}
        last(sym) == CHOOSE i \in 1..Len(docs) :
                        /\ docs[i].symbol = sym
                        /\ \A j \in (i + 1)..Len(docs) : docs[j].symbol # sym
    IN  [s \in DOMAIN result \cup syms |->
            IF s \in syms THEN docs[last(s)].close ELSE result[s]]

\* s.split('.')[0]
StripSuffix(s) ==
    IF "." \in Range(s)
    THEN SubSeq(s, 1, (CHOOSE k \in 1..Len(s) :
                          s[k] = "." /\ \A j \in 1..(k - 1) : s[j] # ".") - 1)
    ELSE s

\* fetch_latest_close: the mapping symbol -> close.
fetch_latest_close(coll, symbols, date_str) ==
    LET find(syms) == SelectSeq(coll, LAMBDA d :
                          d.symbol \in Range(syms) /\ d.trade_date = date_str)
        result == CloseBySymbol(<<>>, find(symbols))
        symbols_not_found == SelectSeq(symbols, LAMBDA s : s \notin DOMAIN result)
        dotted == SelectSeq(symbols_not_found, LAMBDA s : "." \in Range(s))
        symbols_stripped ==
            [i \in 1..Len(dotted) |-> StripSuffix(dotted[i])]
            \o SelectSeq(symbols_not_found, LAMBDA s : "." \notin Range(s))
    IN  IF symbols_not_found # <<>>
        THEN CloseBySymbol(result, find(symbols_stripped))
        ELSE result

\* The store's owner adds a price row.
PriceInsert(row) ==
    /\ call = NoCall
    /\ Len(prices) < MaxRows
    /\ prices' = Append(prices, row)
    /\ UNCHANGED <<info, sym_ts_cache, scores, findocs, index_prices,
                   ts_loaded, TUSHARE_TOKEN, call>>

FetchBatch(symbols, start_date, end_date) ==
    /\ call = NoCall
    /\ call' = [op |-> "fetch_batch", symbols |-> symbols,
                start_date |-> start_date, end_date |-> end_date,
                result |-> fetch_batch(prices, symbols, start_date, end_date)]
    /\ UNCHANGED <<info, sym_ts_cache, prices, scores, findocs, index_prices,
                   ts_loaded, TUSHARE_TOKEN>>

FetchLatestClose(symbols, date_str) ==
    /\ call = NoCall
    /\ call' = [op |-> "fetch_latest_close", symbols |-> symbols,
                date_str |-> date_str,
                result |-> fetch_latest_close(prices, symbols, date_str)]
    /\ UNCHANGED <<info, sym_ts_cache, prices, scores, findocs, index_prices,
                   ts_loaded, TUSHARE_TOKEN>>

\* Price rows with every column present.
PriceRows ==
    [symbol : PriceSymbols, trade_date : TradeDates,
     close : {<<c>> : c \in 1..MaxClose}]

NextBatch ==
    \/ Return
    \/ \E row \in PriceRows : PriceInsert(row)
    \/ \E l \in SeqsUpTo(PriceSymbols, MaxBatch), s \in TradeDates, e \in TradeDates :
          FetchBatch(l, s, e)

SpecBatch == InitFacade /\ [][NextBatch]_vars

NextClose ==
    \/ Return
    \/ \E row \in PriceRows : PriceInsert(row)
    \/ \E l \in SeqsUpTo(PriceSymbols, MaxBatch), d \in TradeDates :
          FetchLatestClose(l, d)

SpecClose == InitFacade /\ [][NextClose]_vars

----------------------------------------------------------------------------
(* Claims about price retrieval.                                           *)

\* The rows of the store that fetch_batch was asked for, of one symbol.
MatchingRows(c, sym) ==
    {i \in 1..Len(prices) :
        /\ prices[i].symbol = sym
        /\ InRange(prices[i].trade_date, c.start_date, c.end_date)}

\* C1 as stated: for a non-empty symbol list fetch_batch returns a table for
\* exactly the requested symbols that have a matching row; every row of a
\* table is a row of that symbol within [start, end]; the rows ascend by
\* date and no date occurs twice in a table.
C1_FetchBatchTables ==
    (call.op = "fetch_batch" /\ call.symbols # <<>>) =>
        /\ DOMAIN call.result =
              {s \in Range(call.symbols) : MatchingRows(call, s) # {}}
        /\ \A sym \in DOMAIN call.result :
              LET t == call.result[sym]
              IN  /\ \A k \in 1..Len(t) :
                        \E i \in MatchingRows(call, sym) :
                            /\ t[k].index = to_datetime_mixed(prices[i].trade_date)
                            /\ t[k].close = prices[i].close
                  /\ \A j, k \in 1..Len(t) :
                        j < k => ~LexLess(t[k].index, t[j].index)
                  /\ \A j, k \in 1..Len(t) : j # k => t[j].index # t[k].index

\* C1 without its last part: the tables, their rows and their order.
C1_TablesRowsAndOrder ==
    (call.op = "fetch_batch" /\ call.symbols # <<>>) =>
        /\ DOMAIN call.result =
              {s \in Range(call.symbols) : s # <<>> /\ MatchingRows(call, s) # {}}
        /\ \A sym \in DOMAIN call.result :
              LET t == call.result[sym]
              IN  /\ Len(t) = Cardinality(MatchingRows(call, sym))
                  /\ \A k \in 1..Len(t) :
                        \E i \in MatchingRows(call, sym) :
                            /\ t[k].index = to_datetime_mixed(prices[i].trade_date)
                            /\ t[k].close = prices[i].close
                  /\ \A j, k \in 1..Len(t) :
                        j < k => ~LexLess(t[k].index, t[j].index)

\* C5 as stated: every key of the mapping fetch_latest_close returns is an
\* input symbol, and an input symbol with a suffix that has no row of its
\* own for the date, while its stripped form has one, is a key of the
\* mapping, with the close of a row of the stripped form.
C5_LatestCloseKeyedByInput ==
    call.op = "fetch_latest_close" =>
        LET RowsOf(sym) == {i \in 1..Len(prices) :
                               /\ prices[i].symbol = sym
                               /\ prices[i].trade_date = call.date_str}
        IN  /\ DOMAIN call.result \subseteq Range(call.symbols)
            /\ \A s \in Range(call.symbols) :
                  ("." \in Range(s) /\ RowsOf(s) = {} /\ RowsOf(StripSuffix(s)) # {}) =>
                      /\ s \in DOMAIN call.result
                      /\ \E i \in RowsOf(StripSuffix(s)) :
                            call.result[s] = prices[i].close

----------------------------------------------------------------------------
(* FinancialDataAccess (financial.py).                                     *)

MaxFinDocs == 3     \* documents a financial query matches
MaxChar == 2        \* characters 1..MaxChar of an end_date string
MaxStrLen == 1      \* longest end_date string

\* The values of the sort field: a document may lack the field, and the
\* field may hold any string, the empty one included.
FinStrings == SeqsUpTo(1..MaxChar, MaxStrLen)
FieldValues == {[has |-> FALSE, val |-> <<>>]} \cup [has : {TRUE}, val : FinStrings]

\* What the cursor of the collection can do: sort and limit in the store,
\* raise from sort(), have no sort()/limit() at all; or find() itself raises.
CursorModes == {"ok", "sort_raises", "no_sort", "find_raises"}

\* periods: None (<<>>) or an integer (<<n>>).
PeriodsValues == {<<>>} \cup {<<n>> : n \in 0..MaxTopN}

\* The store's order of the sort field: a missing field (null) is below
\* every string, strings compare byte-wise.
StoreLess(a, b) ==
    \/ (~a.has /\ b.has)
    \/ (a.has /\ b.has /\ LexLess(a.val, b.val))

\* raw.sort(sort_field, -1): descending, ties in natural order
store_sorted(docs) ==
    SortedBy(docs, LAMBDA a, b : StoreLess(b.end_date, a.end_date))

\* key=lambda d: d.get(sort_field) or ""
sort_key(d) == IF d.end_date.has /\ d.end_date.val # <<>> THEN d.end_date.val ELSE <<>>

\* A mutant of local_sorted: the local sort is ascending.
local_sorted_ascending(docs) ==
    SortedBy(docs, LAMBDA a, b : LexLess(sort_key(a), sort_key(b)))

\* sorted(docs, key=..., reverse=True): descending by key, documents of
\* equal key in the order they had
local_sorted(docs) ==
    SortedBy(docs, LAMBDA a, b : LexLess(sort_key(b), sort_key(a)))

\* docs[: int(periods)] for a non-negative count
Truncate(docs, n) == IF n >= Len(docs) THEN docs ELSE SubSeq(docs, 1, n)

\* fetch_docs on a collection whose query matches the documents coll, in
\* natural order, with a cursor of the given mode.
fetch_docs(coll, mode, periods) ==
    IF mode = "find_raises" THEN <<>>
    ELSE
      LET docs == IF mode = "ok" /\ periods # <<>>
                  THEN Limit(store_sorted(coll), periods[1])
                  ELSE coll
          sorted == local_sorted(docs)
      IN  IF periods # <<>> /\ periods[1] # 0
          THEN Truncate(sorted, periods[1])
          ELSE sorted

\* The store's owner adds a document that the query matches.
FinInsert(v) ==
    /\ call = NoCall
    /\ Len(findocs) < MaxFinDocs
    /\ findocs' = Append(findocs, [id |-> Len(findocs) + 1, end_date |-> v])
    /\ UNCHANGED <<info, sym_ts_cache, prices, scores, index_prices,
                   ts_loaded, TUSHARE_TOKEN, call>>

FetchDocs(mode, periods) ==
    /\ call = NoCall
    /\ call' = [op |-> "fetch_docs", mode |-> mode, periods |-> periods,
                result |-> fetch_docs(findocs, mode, periods)]
    /\ UNCHANGED <<info, sym_ts_cache, prices, scores, findocs, index_prices,
                   ts_loaded, TUSHARE_TOKEN>>

NextFinancial ==
    \/ Return
    \/ \E v \in FieldValues : FinInsert(v)
    \/ \E m \in CursorModes, p \in PeriodsValues : FetchDocs(m, p)

SpecFinancial == InitFacade /\ [][NextFinancial]_vars

----------------------------------------------------------------------------
(* Claims about FinancialDataAccess.                                       *)

\* No two matching documents have the same sort_field value, and at most
\* one lacks the field.
DistinctSortValues ==
    \A i, j \in 1..Len(findocs) :
        i # j => findocs[i].end_date # findocs[j].end_date

\* res is the n documents of findocs with the largest sort field, in
\* descending order of the store, a document lacking the field last.
IsTopDescending(res, n) ==
    /\ Len(res) = Min(n, Len(findocs))
    /\ \A k \in 1..Len(res) : \E i \in 1..Len(findocs) : res[k] = findocs[i]
    /\ \A k \in 1..(Len(res) - 1) : StoreLess(res[k + 1].end_date, res[k].end_date)
    /\ \A i \in 1..Len(findocs) :
          (\A k \in 1..Len(res) : res[k] # findocs[i]) =>
              \A k \in 1..Len(res) : StoreLess(findocs[i].end_date, res[k].end_date)

\* fetch_docs ran with periods >= 1 on the store-side path or, the sort
\* having failed, on the local path.
SortedFetch ==
    /\ call.op = "fetch_docs"
    /\ call.mode \in {"ok", "sort_raises"}
    /\ call.periods # <<>>
    /\ call.periods[1] >= 1

\* C6 as stated: for documents with distinct sort_field values and
\* periods >= 1, the store-side path and the local path both return the
\* min(periods, count) documents with the largest sort_field, descending,
\* a document lacking the field last.
C6_BothPathsTopDescending ==
    (SortedFetch /\ DistinctSortValues) =>
        IsTopDescending(call.result, call.periods[1])

\* C6, amended: the same, for documents with distinct non-empty sort_field
\* values. (A document whose field is the empty string and one lacking the
\* field have the same local sort key: the local path leaves the two in
\* natural order, the store puts the one lacking the field last.)
C6_BothPathsTopDescendingNonEmpty ==
    (/\ SortedFetch
     /\ DistinctSortValues
     /\ \A i \in 1..Len(findocs) : findocs[i].end_date.val # <<>> \/ ~findocs[i].end_date.has) =>
        IsTopDescending(call.result, call.periods[1])

\* The local path truncated three documents, one of them lacking the field
\* and stored first, to the two largest.
C6_Witness ==
    /\ SortedFetch
    /\ call.mode = "sort_raises"
    /\ DistinctSortValues
    /\ Len(findocs) = 3
    /\ ~findocs[1].end_date.has
    /\ \A i \in 2..3 : findocs[i].end_date.val # <<>>
    /\ Len(call.result) = 2

----------------------------------------------------------------------------
(* TradingCalendar (calendar.py).                                          *)

MaxCal == 2         \* rows of the frame the calendar provider returns

\* What the provider does when it is called: pro_api raises, trade_cal
\* raises, trade_cal returns None, or it returns a frame with the cal_date
\* column given (an empty frame when there is no row).
ProviderOutcomes ==
    [kind : {"api_raises", "cal_raises", "none"}, cal_date : {<<>>}]
    \cup [kind : {"frame"}, cal_date : SeqsUpTo(DailyDates, MaxCal)]

\* The provider is not called: the module is missing or there is no token.
NotCalled == [kind |-> "not_called", cal_date |-> <<>>]

\* What the store does: it answers distinct(), or raises from distinct()
\* and answers the find() scan, or raises from both.
StoreModes == {"ok", "distinct_raises", "scan_raises"}

\* sorted(...) of date strings
sorted_dates(days) == SortedBy(days, LAMBDA a, b : LexLess(a, b))

\* A mutant of tushare_trading_days: the provider's errors are not caught.
tushare_trading_days_unguarded(loaded, token, provider) ==
    IF ~loaded \/ ~token THEN [raised |-> FALSE, days |-> <<>>]
    ELSE IF provider.kind \in {"api_raises", "cal_raises"}
         THEN [raised |-> TRUE, days |-> <<>>]
    ELSE IF provider.kind = "none" \/ provider.cal_date = <<>>
         THEN [raised |-> FALSE, days |-> <<>>]
    ELSE [raised |-> FALSE, days |-> sorted_dates(provider.cal_date)]

\* _tushare_trading_days: whether it raised, and the days returned.
tushare_trading_days(loaded, token, provider) ==
    IF ~loaded \/ ~token THEN [raised |-> FALSE, days |-> <<>>]
    ELSE IF provider.kind \in {"api_raises", "cal_raises"}
         THEN [raised |-> FALSE, days |-> <<>>]
    ELSE IF provider.kind = "none" \/ provider.cal_date = <<>>
         THEN [raised |-> FALSE, days |-> <<>>]
    ELSE [raised |-> FALSE, days |-> sorted_dates(provider.cal_date)]

\* The distinct values of a sequence, in order of first occurrence.
Distinct(s) ==
    SelectSeq([i \in 1..Len(s) |-> [v |-> s[i], first |-> \A j \in 1..(i - 1) : s[j] # s[i]]],
              LAMBDA e : e.first)

\* _mongo_trading_days: the distinct trade_date strings of volume_price
\* within the range, sorted; by distinct(), or by a scan when that raises.
mongo_trading_days(coll, start_date, end_date, mode) ==
    LET matching == SelectSeq(coll, LAMBDA d :
                        InRange(d.trade_date, start_date, end_date))
        dates == [i \in 1..Len(matching) |-> matching[i].trade_date]
        uniq == Distinct(dates)
    IN  IF mode = "scan_raises" THEN [raised |-> TRUE, days |-> <<>>]
        ELSE [raised |-> FALSE,
              days |-> sorted_dates([i \in 1..Len(uniq) |-> uniq[i].v])]

\* get_trading_dates: whether it raised, the days returned and the
\* strategies consulted, in order.
get_trading_dates(coll, loaded, token, start_date, end_date, prefer, provider, mode) ==
    LET t == tushare_trading_days(loaded, token, provider)
        m == mongo_trading_days(coll, start_date, end_date, mode)
    IN  IF prefer = "tushare"
        THEN IF t.raised
             THEN [raised |-> TRUE, days |-> <<>>, consulted |-> <<"tushare">>]
             ELSE IF t.days # <<>>
             THEN [raised |-> FALSE, days |-> t.days, consulted |-> <<"tushare">>]
             ELSE [raised |-> m.raised, days |-> m.days,
                   consulted |-> <<"tushare", "mongo">>]
        ELSE IF m.raised
             THEN [raised |-> TRUE, days |-> <<>>, consulted |-> <<"mongo">>]
             ELSE IF m.days # <<>>
             THEN [raised |-> FALSE, days |-> m.days, consulted |-> <<"mongo">>]
             ELSE [raised |-> t.raised, days |-> t.days,
                   consulted |-> <<"mongo", "tushare">>]

GetTradingDates(start_date, end_date, prefer, provider, mode) ==
    LET r == get_trading_dates(prices, ts_loaded, TUSHARE_TOKEN,
                               start_date, end_date, prefer, provider, mode)
    IN  /\ call = NoCall
        /\ (ts_loaded /\ TUSHARE_TOKEN) \/ provider = NotCalled
        /\ call' = [op |-> "get_trading_dates", start_date |-> start_date,
                    end_date |-> end_date, prefer |-> prefer,
                    provider |-> provider, mode |-> mode,
                    raised |-> r.raised, result |-> r.days,
                    consulted |-> r.consulted]
        /\ UNCHANGED <<info, sym_ts_cache, prices, scores, findocs,
                       index_prices, ts_loaded, TUSHARE_TOKEN>>

\* The rows of volume_price the calendar reads: daily rows.
CalendarRows == [symbol : {<<"6">>}, trade_date : DailyDates, close : {<<1>>}]

NextCalendar ==
    \/ Return
    \/ \E row \in CalendarRows : PriceInsert(row)
    \/ \E s \in DailyDates, e \in DailyDates, p \in {"tushare", "mongo"},
          o \in ProviderOutcomes \cup {NotCalled}, m \in StoreModes :
          GetTradingDates(s, e, p, o, m)

SpecCalendar == Init /\ [][NextCalendar]_vars

----------------------------------------------------------------------------
(* Claims about the trading calendar.                                      *)

\* The provider yielded nothing: it was not called, it raised, or it
\* returned None or an empty frame.
ProviderEmpty(c) ==
    c.provider.kind # "frame" \/ c.provider.cal_date = <<>>

\* days is the local store's answer: its distinct trade dates within the
\* range, ascending.
IsLocalDays(c, days) ==
    /\ Range(days) = {prices[i].trade_date : i \in
                        {j \in 1..Len(prices) :
                            InRange(prices[j].trade_date, c.start_date, c.end_date)}}
    /\ \A j, k \in 1..Len(days) : j < k => LexLess(days[j], days[k])

\* days is the provider's answer: its cal_date values, ascending.
IsProviderDays(c, days) ==
    /\ Len(days) = Len(c.provider.cal_date)
    /\ \A d \in Range(days) :
          Cardinality({k \in 1..Len(days) : days[k] = d})
              = Cardinality({k \in 1..Len(days) : c.provider.cal_date[k] = d})
    /\ \A j, k \in 1..Len(days) : j < k => LexLeq(days[j], days[k])

\* C7: get_trading_dates consults the preferred strategy first and returns
\* its result when that is not empty; the other strategy is consulted only
\* when the first yields nothing. A missing token or an error of the
\* provider is never raised: the call then returns the local store's dates
\* when the provider was first, and an empty sequence when the provider was
\* the fallback. (The call raises only when the store itself fails.)
C7_PreferredFirstProviderErrorsSwallowed ==
    call.op = "get_trading_dates" =>
        LET first == IF call.prefer = "tushare" THEN "tushare" ELSE "mongo"
            store_ok == call.mode # "scan_raises"
        IN  /\ call.consulted[1] = first
            /\ Len(call.consulted) \in {1, 2}
            /\ call.raised => (~store_ok /\ "mongo" \in Range(call.consulted))
            /\ (first = "tushare" /\ ~ProviderEmpty(call)) =>
                  /\ call.consulted = <<"tushare">>
                  /\ ~call.raised
                  /\ IsProviderDays(call, call.result)
            /\ (first = "tushare" /\ ProviderEmpty(call)) =>
                  /\ call.consulted = <<"tushare", "mongo">>
                  /\ store_ok => (~call.raised /\ IsLocalDays(call, call.result))
            /\ (first = "mongo" /\ store_ok /\ ~IsLocalDays(call, <<>>)) =>
                  /\ call.consulted = <<"mongo">>
                  /\ ~call.raised
                  /\ IsLocalDays(call, call.result)
            /\ (first = "mongo" /\ store_ok /\ IsLocalDays(call, <<>>)) =>
                  /\ call.consulted = <<"mongo", "tushare">>
                  /\ ~call.raised
                  /\ IF ProviderEmpty(call) THEN call.result = <<>>
                     ELSE IsProviderDays(call, call.result)

\* The preferred provider raised and the call returned the dates of the
\* local store.
C7_Witness ==
    /\ call.op = "get_trading_dates"
    /\ call.prefer = "tushare"
    /\ call.provider.kind = "cal_raises"
    /\ ~call.raised
    /\ Len(call.result) >= 2

----------------------------------------------------------------------------
(* IndexDataAccess (index.py).                                             *)

\* The index codes asked for; the code without its last three characters is
\* the stock symbol of the fallback.
IndexCodes == {<<"6", ".", "S", "H">>, <<"7", ".", "S", "H">>}

\* A close: missing from the document (<<>>) or a number (<<c>>).
IndexCloses == {<<>>} \cup {<<c>> : c \in 0..MaxClose}

\* The rows of index_prices and of volume_price the index facade reads;
\* their trade dates are daily strings, which format="%Y%m%d" parses.
IndexRows == [ts_code : IndexCodes, trade_date : DailyDates, close : IndexCloses]
StockRows == [symbol : {<<"6">>}, trade_date : DailyDates, close : IndexCloses]

\* A float of the result: NaN, or the fraction num/den in lowest terms.
NaN == [nan |-> TRUE, num |-> 0, den |-> 1]

RECURSIVE GCD(_, _)
GCD(a, b) == IF b = 0 THEN a ELSE GCD(b, a % b)

Fraction(n, d) == [nan |-> FALSE, num |-> n \div GCD(n, d), den |-> d \div GCD(n, d)]

\* One value of df["close"].values: NaN where the document has no close.
close_value(doc) == IF doc.close = <<>> THEN NaN ELSE Fraction(doc.close[1], 1)

\* x / base for a value of the series and a non-zero or NaN base
divide(x, base) ==
    IF x.nan \/ base.nan THEN NaN ELSE Fraction(x.num * base.den, x.den * base.num)

\* ts_code[:-3]
strip_last3(ts_code) ==
    SubSeq(ts_code, 1, IF Len(ts_code) > 3 THEN Len(ts_code) - 3 ELSE 0)

\* cursor.sort("trade_date", 1)
ByTradeDate(docs) ==
    SortedBy(docs, LAMBDA a, b : LexLess(a.trade_date, b.trade_date))

\* The documents load_normalized builds its series from: those of the index
\* collection, or of the price collection when the index has none.
raw_docs(icoll, pcoll, ts_code, start_date, end_date) ==
    LET docs == ByTradeDate(SelectSeq(icoll, LAMBDA d :
                    d.ts_code = ts_code /\ InRange(d.trade_date, start_date, end_date)))
        symbol == strip_last3(ts_code)
    IN  IF docs # <<>> THEN docs
        ELSE ByTradeDate(SelectSeq(pcoll, LAMBDA d :
                 d.symbol = symbol /\ InRange(d.trade_date, start_date, end_date)))

\* load_normalized: the series returned, or the error raised. A frame none
\* of whose documents has a close has no "close" column (KeyError); a
\* document without a close among others has NaN, which is neither None
\* nor 0.
load_normalized(icoll, pcoll, ts_code, start_date, end_date) ==
    LET docs == raw_docs(icoll, pcoll, ts_code, start_date, end_date)
        base == close_value(docs[1])
    IN  IF docs = <<>> THEN [kind |-> "series", obs |-> <<>>]
        ELSE IF \A i \in 1..Len(docs) : docs[i].close = <<>>
             THEN [kind |-> "KeyError", obs |-> <<>>]
        ELSE IF ~base.nan /\ base.num = 0
             THEN [kind |-> "series", obs |-> <<>>]
        ELSE [kind |-> "series",
              obs |-> [i \in 1..Len(docs) |->
                          [index |-> docs[i].trade_date,
                           value |-> divide(close_value(docs[i]), base)]]]

\* The store's owner adds an index row.
IndexInsert(row) ==
    /\ call = NoCall
    /\ Len(index_prices) < MaxRows
    /\ index_prices' = Append(index_prices, row)
    /\ UNCHANGED <<info, sym_ts_cache, prices, scores, findocs,
                   ts_loaded, TUSHARE_TOKEN, call>>

LoadNormalized(ts_code, start_date, end_date) ==
    /\ call = NoCall
    /\ call' = [op |-> "load_normalized", ts_code |-> ts_code,
                raw |-> raw_docs(index_prices, prices, ts_code, start_date, end_date),
                result |-> load_normalized(index_prices, prices, ts_code,
                                           start_date, end_date)]
    /\ UNCHANGED <<info, sym_ts_cache, prices, scores, findocs, index_prices,
                   ts_loaded, TUSHARE_TOKEN>>

NextIndex ==
    \/ Return
    \/ \E row \in IndexRows : IndexInsert(row)
    \/ \E row \in StockRows : PriceInsert(row)
    \/ \E c \in IndexCodes, s \in DailyDates, e \in DailyDates :
          LoadNormalized(c, s, e)

SpecIndex == InitFacade /\ [][NextIndex]_vars

----------------------------------------------------------------------------
(* Claims about IndexDataAccess.                                           *)

One == [nan |-> FALSE, num |-> 1, den |-> 1]

\* The first close of the raw series is there and is not zero.
FirstCloseUsable(raw) ==
    raw # <<>> /\ raw[1].close # <<>> /\ raw[1].close[1] # 0

\* What C8 says of a raw series with a usable first close: one observation
\* per raw one, the first 1.0, each the raw value over the first raw value
\* (NaN where the raw value is missing).
C8_Rebased ==
    (call.op = "load_normalized" /\ FirstCloseUsable(call.raw)) =>
        /\ call.result.kind = "series"
        /\ Len(call.result.obs) = Len(call.raw)
        /\ call.result.obs[1].value = One
        /\ \A i \in 1..Len(call.raw) :
              LET v == call.result.obs[i].value
              IN  IF call.raw[i].close = <<>> THEN v.nan
                  ELSE /\ ~v.nan
                       /\ v.num * call.raw[1].close[1] = call.raw[i].close[1] * v.den

\* C8 as stated: with a usable first close the result is the raw series
\* over its first value, the first observation 1.0; when the raw series is
\* empty, or its first close is missing or zero, the result is an empty
\* series.
C8_NormalizedOrEmpty ==
    /\ C8_Rebased
    /\ (call.op = "load_normalized" /\ ~FirstCloseUsable(call.raw)) =>
          call.result = [kind |-> "series", obs |-> <<>>]

----------------------------------------------------------------------------
(* The facades together: they share the database handle and nothing else.  *)

Next ==
    \/ NextResolver
    \/ NextScore
    \/ NextScoreDate
    \/ NextBatch
    \/ NextClose
    \/ NextFinancial
    \/ NextCalendar
    \/ NextIndex

Spec == Init /\ [][Next]_vars

====
